---- MODULE Spec2Model ----
(***************************************************************************)
(* Field engines of the netflow plugin (src/emu/plugins/netflow/engine.go) *)
(* UIntEngine, HistogramEngine and the uint32 histogram entries.           *)
(*                                                                         *)
(* Bytes are digits of base Radix (256 in the program), so that a uintN is *)
(* a number below Radix^(N/8) and every wrap-around of the program's       *)
(* unsigned arithmetic happens at the scaled width.  Go slices are indexed *)
(* from 0, TLA+ sequences from 1: b[0] of the program is b[1] here.        *)
(***************************************************************************)
EXTENDS Integers, Sequences, FiniteSets, TLC

\* ------------------------------------------------------------------ bounds
\* number of values of one byte (256 in the program)
Radix == 2
\* successful Update calls followed per UIntEngine in Spec
MaxUpdates == 5
\* longest list of a list entry and longest entry sequence of a histogram
MaxEntries == 2
MaxRegs == 3

\* ------------------------------------------------------- unsigned integers
MaxUint8 == Radix - 1
MaxUint16 == Radix ^ 2 - 1
MaxUint32 == Radix ^ 4 - 1
MaxUint64 == Radix ^ 8 - 1

\* uint64 / uint32 arithmetic of Go: the result is reduced modulo 2^width
Add64(a, c) == (a + c) % (MaxUint64 + 1)
Sub64(a, c) == (a - c + MaxUint64 + 1) % (MaxUint64 + 1)
Add32(a, c) == (a + c) % (MaxUint32 + 1)
Sub32(a, c) == (a - c + MaxUint32 + 1) % (MaxUint32 + 1)

\* the conversions uint8(x), uint16(x), uint32(x) keep the low bytes of x
TruncUint(n, x) == x % (Radix ^ n)

\* binary.BigEndian.PutUint16/32/64 (and b[0] = v for one byte): the n bytes
\* of v, most significant first, over the first n places of b
PutUint(b, n, v) ==
    [i \in 1..Len(b) |-> IF i <= n THEN (v \div (Radix ^ (n - i))) % Radix ELSE b[i]]

\* the unsigned integer that a byte sequence spells in big-endian order
RECURSIVE BigEndianUint(_)
BigEndianUint(s) ==
    IF Len(s) = 0 THEN 0
    ELSE BigEndianUint(SubSeq(s, 1, Len(s) - 1)) * Radix + s[Len(s)]

\* the absent engine (a nil pointer) and the absent error (a nil error)
NoEngine == [none |-> TRUE]
nil == "nil"

\* ---------------------------------------------------------------- UIntEngine
maxUInt64(a, c) == IF a >= c THEN a ELSE c

\* the table of validateParams: sizes and the largest value of each
sizes == <<1, 2, 4, 8>>
maxPossible == <<MaxUint8, MaxUint16, MaxUint32, MaxUint64>>

\* index of val in arr (0-based, as the program returns it), -1 if absent
findValue(arr, val) ==
    IF \E i \in 1..Len(arr) : arr[i] = val
    THEN [i |-> (CHOOSE i \in 1..Len(arr) : arr[i] = val) - 1, ok |-> TRUE]
    ELSE [i |-> -1, ok |-> FALSE]

\* validateParams with the size branch clearing an earlier error
validateParamsCleared(params) ==
    LET e1 == IF params.minValue > params.maxValue THEN "MinBiggerThanMax" ELSE nil
        e2 == IF params.initValue # 0 /\ (params.initValue < params.minValue
                                          \/ params.initValue > params.maxValue)
              THEN "InitOutOfRange" ELSE e1
        f  == findValue(sizes, params.size)
        e3 == IF ~f.ok THEN "InvalidSize"
              ELSE IF params.maxValue > maxPossible[f.i + 1] THEN "MaxNotRepresentable"
              ELSE nil
        e4 == IF params.op # "inc" /\ params.op # "dec" /\ params.op # "rand"
              THEN "UnsupportedOperation" ELSE e3
    IN e4

\* validateParams without the check of the operation
validateParamsNoOpCheck(params) ==
    LET e1 == IF params.minValue > params.maxValue THEN "MinBiggerThanMax" ELSE nil
        e2 == IF params.initValue # 0 /\ (params.initValue < params.minValue
                                          \/ params.initValue > params.maxValue)
              THEN "InitOutOfRange" ELSE e1
        f  == findValue(sizes, params.size)
        e3 == IF ~f.ok THEN "InvalidSize"
              ELSE IF params.maxValue > maxPossible[f.i + 1] THEN "MaxNotRepresentable"
              ELSE e2
    IN e3

\* err is assigned by every failing check and never reset: the last failing
\* check names the error, any failing check makes it non-nil
validateParams(params) ==
    LET e1 == IF params.minValue > params.maxValue THEN "MinBiggerThanMax" ELSE nil
        e2 == IF params.initValue # 0 /\ (params.initValue < params.minValue
                                          \/ params.initValue > params.maxValue)
              THEN "InitOutOfRange" ELSE e1
        f  == findValue(sizes, params.size)
        e3 == IF ~f.ok THEN "InvalidSize"
              ELSE IF params.maxValue > maxPossible[f.i + 1] THEN "MaxNotRepresentable"
              ELSE e2
        e4 == IF params.op # "inc" /\ params.op # "dec" /\ params.op # "rand"
              THEN "UnsupportedOperation" ELSE e3
    IN e4

\* NewUIntEngine that keeps the step as given
NewUIntEngineNoReduce(params) ==
    LET err == validateParams(params) IN
    IF err # nil THEN [o |-> NoEngine, err |-> err]
    ELSE LET d0 == Add64(Sub64(params.maxValue, params.minValue), 1)
             domainLen == IF d0 = 0 THEN MaxUint64 ELSE d0
         IN [o |-> [par |-> params,
                    currValue |-> maxUInt64(params.minValue, params.initValue),
                    domainLen |-> domainLen],
             err |-> nil]

NewUIntEngine(params) ==
    LET err == validateParams(params) IN
    IF err # nil THEN [o |-> NoEngine, err |-> err]
    ELSE LET d0 == Add64(Sub64(params.maxValue, params.minValue), 1)
             domainLen == IF d0 = 0 THEN MaxUint64 ELSE d0
             step == IF params.step > domainLen THEN params.step % domainLen
                     ELSE params.step
         IN [o |-> [par |-> [params EXCEPT !.step = step],
                    currValue |-> maxUInt64(params.minValue, params.initValue),
                    domainLen |-> domainLen],
             err |-> nil]

\* IncValue whose restart does not consume one
IncValueOffByOne(o) ==
    LET left == Sub64(o.par.maxValue, o.currValue) IN
    IF o.par.step <= left
    THEN [o EXCEPT !.currValue = Add64(o.currValue, o.par.step)]
    ELSE [o EXCEPT !.currValue = Add64(o.par.minValue, Sub64(o.par.step, left))]

IncValue(o) ==
    LET left == Sub64(o.par.maxValue, o.currValue) IN
    IF o.par.step <= left
    THEN [o EXCEPT !.currValue = Add64(o.currValue, o.par.step)]
    ELSE [o EXCEPT !.currValue =
              Add64(o.par.minValue, Sub64(Sub64(o.par.step, left), 1))]

\* DecValue whose restart does not consume one
DecValueOffByOne(o) ==
    LET left == Sub64(o.currValue, o.par.minValue) IN
    IF o.par.step <= left
    THEN [o EXCEPT !.currValue = Sub64(o.currValue, o.par.step)]
    ELSE [o EXCEPT !.currValue = Sub64(o.par.maxValue, Sub64(o.par.step, left))]

DecValue(o) ==
    LET left == Sub64(o.currValue, o.par.minValue) IN
    IF o.par.step <= left
    THEN [o EXCEPT !.currValue = Sub64(o.currValue, o.par.step)]
    ELSE [o EXCEPT !.currValue =
              Sub64(o.par.maxValue, Sub64(Sub64(o.par.step, left), 1))]

\* genValue is the draw of rand.Uint64()
RandValue(o, genValue) ==
    [o EXCEPT !.currValue = Add64(o.par.minValue, genValue % o.domainLen)]

PerformOp(o, genValue) ==
    CASE o.par.op = "inc"  -> [o |-> IncValue(o), err |-> nil]
      [] o.par.op = "dec"  -> [o |-> DecValue(o), err |-> nil]
      [] o.par.op = "rand" -> [o |-> RandValue(o, genValue), err |-> nil]
      [] OTHER             -> [o |-> o, err |-> "UnrecognizedOperation"]

\* Update that advances before it writes
UIntEngine_UpdateAdvanceFirst(o, b, genValue) ==
    IF Len(b) < o.par.size THEN [o |-> o, b |-> b, err |-> "ShortSlice"]
    ELSE LET r == PerformOp(o, genValue) IN
         [o |-> r.o,
          b |-> PutUint(b, o.par.size, TruncUint(o.par.size, r.o.currValue)),
          err |-> r.err]

\* Update that writes what fits before it checks the length
UIntEngine_UpdateWriteFirst(o, b, genValue) ==
    IF Len(b) < o.par.size
    THEN [o |-> o,
          b |-> [i \in 1..Len(b) |->
                   PutUint([j \in 1..o.par.size |-> 0], o.par.size,
                           TruncUint(o.par.size, o.currValue))[i]],
          err |-> "ShortSlice"]
    ELSE LET r == PerformOp(o, genValue) IN
         [o |-> r.o,
          b |-> PutUint(b, o.par.size, TruncUint(o.par.size, o.currValue)),
          err |-> r.err]

\* Update that always writes the eight bytes of a uint64 when they fit
UIntEngine_UpdateWrite8(o, b, genValue) ==
    IF Len(b) < o.par.size THEN [o |-> o, b |-> b, err |-> "ShortSlice"]
    ELSE LET k == IF Len(b) >= 8 THEN 8 ELSE o.par.size
             r == PerformOp(o, genValue)
         IN [o |-> r.o, b |-> PutUint(b, k, TruncUint(k, o.currValue)), err |-> r.err]

UIntEngine_Update(o, b, genValue) ==
    IF Len(b) < o.par.size THEN [o |-> o, b |-> b, err |-> "ShortSlice"]
    ELSE IF o.par.size \notin {1, 2, 4, 8}
    THEN [o |-> o, b |-> b, err |-> "SizeShouldBe1248"]
    ELSE LET w == PutUint(b, o.par.size, TruncUint(o.par.size, o.currValue))
             r == PerformOp(o, genValue)
         IN [o |-> r.o, b |-> w, err |-> r.err]

UIntEngine_GetOffset(o) == o.par.offset
UIntEngine_GetSize(o) == o.par.size

\* ----------------------------------------------------------- histogram entries
\* an entry is a record with its kind, its parameters and its prob:
\*   [kind |-> "UInt32", v, prob], [kind |-> "UInt32Range", min, max, prob],
\*   [kind |-> "UInt32List", list, prob]
\* GetValue returns the bytes b and the error err; panic tells that the call
\* did not return but ended the process with a run-time panic
make4 == <<0, 0, 0, 0>>

HistogramUInt32Entry_GetValue(o) ==
    [b |-> PutUint(make4, 4, o.v), err |-> nil, panic |-> FALSE]

\* v is the draw of rand.Uint32(); a zero divisor of % is a run-time panic
HistogramUInt32RangeEntry_GetValue(o, v) ==
    IF o.max < o.min
    THEN [b |-> <<>>, err |-> "MaxSmallerThanMin", panic |-> FALSE]
    ELSE LET width == Add32(Sub32(o.max, o.min), 1) IN
         IF width = 0
         THEN [b |-> <<>>, err |-> nil, panic |-> TRUE]
         ELSE [b |-> PutUint(make4, 4, Add32(o.min, v % width)),
               err |-> nil, panic |-> FALSE]

\* index is the draw of rand.Intn(len(o.list))
HistogramUInt32ListEntry_GetValue(o, index) ==
    IF Len(o.list) = 0
    THEN [b |-> <<>>, err |-> "EmptyList", panic |-> FALSE]
    ELSE [b |-> PutUint(make4, 4, o.list[index + 1]), err |-> nil, panic |-> FALSE]

\* a rune is an int32, kept at its width
MaxInt32 == 2147483647
MinInt32 == (0 - MaxInt32) - 1

\* max - min + 1 in int32 for max >= min, wrapping around on overflow
RuneRangeWidth(min, max) ==
    IF min <= 0 /\ max >= MaxInt32 + min
    THEN ((max - MaxInt32) - (min + MaxInt32)) - 1
    ELSE (max - min) + 1

\* utf8.RuneLen: the number of bytes of the encoding, -1 for a rune that has
\* none (negative, a surrogate half, above the last code point)
RuneLen(r) ==
    IF r < 0 THEN 0 - 1
    ELSE IF r <= 127 THEN 1
    ELSE IF r <= 2047 THEN 2
    ELSE IF r >= 55296 /\ r <= 57343 THEN 0 - 1
    ELSE IF r <= 65535 THEN 3
    ELSE IF r <= 1114111 THEN 4
    ELSE 0 - 1

\* utf8.EncodeRune of a rune that has an encoding
EncodeRune(r) ==
    CASE RuneLen(r) = 1 -> <<r>>
      [] RuneLen(r) = 2 -> <<192 + (r \div 64), 128 + (r % 64)>>
      [] RuneLen(r) = 3 -> <<224 + (r \div 4096), 128 + ((r \div 64) % 64),
                             128 + (r % 64)>>
      [] RuneLen(r) = 4 -> <<240 + (r \div 262144), 128 + ((r \div 4096) % 64),
                             128 + ((r \div 64) % 64), 128 + (r % 64)>>

\* b = make([]byte, utf8.RuneLen(r)); utf8.EncodeRune(b, r): make with a
\* negative length is a run-time panic
RuneBytes(r) ==
    IF RuneLen(r) < 0
    THEN [b |-> <<>>, err |-> nil, panic |-> TRUE]
    ELSE [b |-> EncodeRune(r), err |-> nil, panic |-> FALSE]

HistogramRuneEntry_GetValue(o) == RuneBytes(o.r)

\* d is the draw of rand.Intn(n), which panics for n <= 0
HistogramRuneRangeEntry_GetValue(o, d) ==
    IF o.max < o.min
    THEN [b |-> <<>>, err |-> "MaxSmallerThanMin", panic |-> FALSE]
    ELSE IF RuneRangeWidth(o.min, o.max) <= 0
    THEN [b |-> <<>>, err |-> nil, panic |-> TRUE]
    ELSE RuneBytes(o.min + d)

\* index is the draw of rand.Intn(len(o.list))
HistogramRuneListEntry_GetValue(o, index) ==
    IF Len(o.list) = 0
    THEN [b |-> <<>>, err |-> "EmptyList", panic |-> FALSE]
    ELSE RuneBytes(o.list[index + 1])

\* the call entry.GetValue() through the interface; r is the entry's draw
HistogramEntry_GetValue(entry, r) ==
    CASE entry.kind = "UInt32"      -> HistogramUInt32Entry_GetValue(entry)
      [] entry.kind = "UInt32Range" -> HistogramUInt32RangeEntry_GetValue(entry, r)
      [] entry.kind = "UInt32List"  -> HistogramUInt32ListEntry_GetValue(entry, r)
      [] entry.kind = "Rune"        -> HistogramRuneEntry_GetValue(entry)
      [] entry.kind = "RuneRange"   -> HistogramRuneRangeEntry_GetValue(entry, r)
      [] entry.kind = "RuneList"    -> HistogramRuneListEntry_GetValue(entry, r)

HistogramEntry_GetProb(entry) == entry.prob

\* the draws an entry can make
EntryDraws(entry, uint32Draws) ==
    CASE entry.kind = "UInt32"      -> {0}
      [] entry.kind = "UInt32Range" -> uint32Draws
      [] entry.kind = "UInt32List"  ->
             IF Len(entry.list) = 0 THEN {0} ELSE 0..(Len(entry.list) - 1)
      [] entry.kind = "Rune"        -> {0}
      [] entry.kind = "RuneRange"   ->
             IF entry.max < entry.min THEN {0}
             ELSE LET w == RuneRangeWidth(entry.min, entry.max) IN
                  IF w <= 0 THEN {0} ELSE {0, w \div 2, w - 1}
      [] entry.kind = "RuneList"    ->
             IF Len(entry.list) = 0 THEN {0} ELSE 0..(Len(entry.list) - 1)

\* ------------------------------------------------------------ HistogramEngine
RECURSIVE SumSeq(_)
SumSeq(s) == IF Len(s) = 0 THEN 0 ELSE s[1] + SumSeq(Tail(s))

\* the weighted sampler: construction fails on an empty or all-zero vector
NewNonUniformRandGen(distributions) ==
    IF Len(distributions) = 0 \/ SumSeq(distributions) = 0
    THEN [gen |-> NoEngine, err |-> "DegenerateDistribution"]
    ELSE [gen |-> [distributions |-> distributions], err |-> nil]

\* the indices (0-based) Generate can return: those of positive weight
NonUniformRandGen_Generate(gen) ==
    {i \in 0..(Len(gen.distributions) - 1) : gen.distributions[i + 1] > 0}

buildDistributionSlice(entries) ==
    [i \in 1..Len(entries) |-> HistogramEntry_GetProb(entries[i])]

NewHistogramEngine(params) ==
    LET distributions == buildDistributionSlice(params.entries)
        g == NewNonUniformRandGen(distributions)
    IN IF g.err # nil THEN [o |-> NoEngine, err |-> g.err]
       ELSE [o |-> [par |-> params, distributions |-> distributions,
                    generator |-> g.gen],
             err |-> nil]

\* copy(dst, src) of Go: the first min(len(dst), len(src)) bytes
copy(dst, src) ==
    LET k == IF Len(dst) < Len(src) THEN Len(dst) ELSE Len(src) IN
    [dst |-> [i \in 1..Len(dst) |-> IF i <= k THEN src[i] ELSE dst[i]], copied |-> k]

\* Update that does not check the length of the produced value
HistogramEngine_UpdateNoLengthCheck(o, b, entryIndex, r) ==
    IF Len(b) < o.par.size
    THEN [b |-> b, err |-> "ShortSlice", panic |-> FALSE,
          entryIndex |-> -1, newValueBytes |-> <<>>]
    ELSE IF entryIndex \notin 0..(Len(o.par.entries) - 1)
    THEN [b |-> b, err |-> nil, panic |-> TRUE,
          entryIndex |-> entryIndex, newValueBytes |-> <<>>]
    ELSE LET g == HistogramEntry_GetValue(o.par.entries[entryIndex + 1], r) IN
         IF g.panic
         THEN [b |-> b, err |-> nil, panic |-> TRUE,
               entryIndex |-> entryIndex, newValueBytes |-> <<>>]
         ELSE IF g.err # nil
         THEN [b |-> b, err |-> g.err, panic |-> FALSE,
               entryIndex |-> entryIndex, newValueBytes |-> g.b]
         ELSE [b |-> copy(SubSeq(b, 1, o.par.size), g.b).dst
                       \o SubSeq(b, o.par.size + 1, Len(b)),
               err |-> nil, panic |-> FALSE,
               entryIndex |-> entryIndex, newValueBytes |-> g.b]

\* Update that copies before it checks the length of the produced value
HistogramEngine_UpdateCopyFirst(o, b, entryIndex, r) ==
    IF Len(b) < o.par.size
    THEN [b |-> b, err |-> "ShortSlice", panic |-> FALSE,
          entryIndex |-> -1, newValueBytes |-> <<>>]
    ELSE IF entryIndex \notin 0..(Len(o.par.entries) - 1)
    THEN [b |-> b, err |-> nil, panic |-> TRUE,
          entryIndex |-> entryIndex, newValueBytes |-> <<>>]
    ELSE LET g == HistogramEntry_GetValue(o.par.entries[entryIndex + 1], r) IN
         IF g.panic
         THEN [b |-> b, err |-> nil, panic |-> TRUE,
               entryIndex |-> entryIndex, newValueBytes |-> <<>>]
         ELSE IF g.err # nil
         THEN [b |-> b, err |-> g.err, panic |-> FALSE,
               entryIndex |-> entryIndex, newValueBytes |-> g.b]
         ELSE LET c == copy(SubSeq(b, 1, o.par.size), g.b) IN
              [b |-> c.dst \o SubSeq(b, o.par.size + 1, Len(b)),
               err |-> IF c.copied # o.par.size THEN "CopiedSize" ELSE nil,
               panic |-> FALSE,
               entryIndex |-> entryIndex, newValueBytes |-> g.b]

\* Update that checks the length of the slice last, after sampling, calling
\* GetValue and checking the produced length
HistogramEngine_UpdateCheckLast(o, b, entryIndex, r) ==
    IF entryIndex \notin 0..(Len(o.par.entries) - 1)
    THEN [b |-> b, err |-> nil, panic |-> TRUE,
          entryIndex |-> entryIndex, newValueBytes |-> <<>>]
    ELSE LET g == HistogramEntry_GetValue(o.par.entries[entryIndex + 1], r) IN
         IF g.panic
         THEN [b |-> b, err |-> nil, panic |-> TRUE,
               entryIndex |-> entryIndex, newValueBytes |-> <<>>]
         ELSE IF g.err # nil
         THEN [b |-> b, err |-> g.err, panic |-> FALSE,
               entryIndex |-> entryIndex, newValueBytes |-> g.b]
         ELSE IF Len(g.b) < o.par.size
         THEN [b |-> b, err |-> "ShortValue", panic |-> FALSE,
               entryIndex |-> entryIndex, newValueBytes |-> g.b]
         ELSE IF Len(b) < o.par.size
         THEN [b |-> b, err |-> "ShortSlice", panic |-> FALSE,
               entryIndex |-> entryIndex, newValueBytes |-> g.b]
         ELSE LET c == copy(SubSeq(b, 1, o.par.size), SubSeq(g.b, 1, o.par.size)) IN
              [b |-> c.dst \o SubSeq(b, o.par.size + 1, Len(b)),
               err |-> nil, panic |-> FALSE,
               entryIndex |-> entryIndex, newValueBytes |-> g.b]

\* entryIndex is what the generator returns if Update samples, r the draw of
\* the sampled entry; the result carries the locals entryIndex and
\* newValueBytes as they are when Update returns.  Indexing entries out of
\* range is a run-time panic
HistogramEngine_Update(o, b, entryIndex, r) ==
    IF Len(b) < o.par.size
    THEN [b |-> b, err |-> "ShortSlice", panic |-> FALSE,
          entryIndex |-> -1, newValueBytes |-> <<>>]
    ELSE IF entryIndex \notin 0..(Len(o.par.entries) - 1)
    THEN [b |-> b, err |-> nil, panic |-> TRUE,
          entryIndex |-> entryIndex, newValueBytes |-> <<>>]
    ELSE LET g == HistogramEntry_GetValue(o.par.entries[entryIndex + 1], r) IN
         IF g.panic
         THEN [b |-> b, err |-> nil, panic |-> TRUE,
               entryIndex |-> entryIndex, newValueBytes |-> <<>>]
         ELSE IF g.err # nil
         THEN [b |-> b, err |-> g.err, panic |-> FALSE,
               entryIndex |-> entryIndex, newValueBytes |-> g.b]
         ELSE IF Len(g.b) < o.par.size
         THEN [b |-> b, err |-> "ShortValue", panic |-> FALSE,
               entryIndex |-> entryIndex, newValueBytes |-> g.b]
         ELSE LET c == copy(SubSeq(b, 1, o.par.size), SubSeq(g.b, 1, o.par.size)) IN
              [b |-> c.dst \o SubSeq(b, o.par.size + 1, Len(b)),
               err |-> IF c.copied # o.par.size THEN "CopiedSize" ELSE nil,
               panic |-> FALSE,
               entryIndex |-> entryIndex, newValueBytes |-> g.b]

HistogramEngine_GetOffset(o) == o.par.offset
HistogramEngine_GetSize(o) == o.par.size


\* ---------------------------------------------- the steps of a thread's Update
\* Update, IncValue and DecValue as the reads and writes of currValue they are
\* made of; left and tmp are the thread's locals
Threads == {1, 2}

\* b[...] = uintN(o.currValue): the value the call writes to its slice
Update_emit(o) == TruncUint(o.par.size, o.currValue)

\* left := o.par.maxValue - o.currValue, left := o.currValue - o.par.minValue
OpValue_left(o) ==
    IF o.par.op = "inc" THEN Sub64(o.par.maxValue, o.currValue)
    ELSE Sub64(o.currValue, o.par.minValue)

\* the write of o.currValue += o.par.step, o.currValue -= o.par.step after
\* the read of tmp
OpValue_stepOffByOne(o, tmp) ==
    IF o.par.op = "inc" THEN Add64(tmp, Add64(o.par.step, 1))
    ELSE Sub64(tmp, Add64(o.par.step, 1))

OpValue_step(o, tmp) ==
    IF o.par.op = "inc" THEN Add64(tmp, o.par.step)
    ELSE Sub64(tmp, o.par.step)

\* the write of the restart
OpValue_restart(o, left) ==
    IF o.par.op = "inc"
    THEN Add64(o.par.minValue, Sub64(Sub64(o.par.step, left), 1))
    ELSE Sub64(o.par.maxValue, Sub64(Sub64(o.par.step, left), 1))

\* ----------------------------------------------------------- MethodRepository
\* a Handler is a name, nil for none; the map r is a function of the
\* registered method names
Version == "2.0"
NoMethods == [m \in {} |-> nil]

NewMethodRepository == [r |-> NoMethods]

Metadata(h, noApi) == [Handler |-> h, NoApi |-> noApi]

TakeMethod(mr, r) ==
    IF r.Method = "" \/ r.Version # Version
    THEN [h |-> nil, err |-> "ErrInvalidParams", noApi |-> FALSE]
    ELSE IF r.Method \notin DOMAIN mr.r
    THEN [h |-> nil, err |-> "ErrMethodNotFound", noApi |-> FALSE]
    ELSE [h |-> mr.r[r.Method].Handler, err |-> nil,
          noApi |-> mr.r[r.Method].NoApi]

\* RegisterMethod that keeps what is registered already
RegisterMethodKeepFirst(mr, method, h, noApi) ==
    IF method = "" \/ h = nil
    THEN [mr |-> mr, err |-> "NameAndFunctionShouldNotBeEmpty"]
    ELSE IF method \in DOMAIN mr.r THEN [mr |-> mr, err |-> nil]
    ELSE [mr |-> [mr EXCEPT !.r = [m \in DOMAIN mr.r \cup {method} |->
                      IF m = method THEN Metadata(h, noApi) ELSE mr.r[m]]],
          err |-> nil]

RegisterMethod(mr, method, h, noApi) ==
    IF method = "" \/ h = nil
    THEN [mr |-> mr, err |-> "NameAndFunctionShouldNotBeEmpty"]
    ELSE [mr |-> [mr EXCEPT !.r = [m \in DOMAIN mr.r \cup {method} |->
                      IF m = method THEN Metadata(h, noApi) ELSE mr.r[m]]],
          err |-> nil]

Methods(mr) == [m \in DOMAIN mr.r |-> mr.r[m]]

\* ------------------------------------------------------------------- state
VARIABLES
    params0,   \* the parameters handed to the last constructor call
    uie,       \* the UIntEngine the caller holds, NoEngine before/without one
    err,       \* the error returned by the last call, nil for none
    b,         \* the caller's byte slice as the last Update left it
    b0,        \* the same slice as it was handed to that Update
    last,      \* the last call: "none", "New", "Update"
    pre,       \* currValue when the last Update was entered
    n,         \* Updates of this engine that returned nil
    rejVal,    \* currValue at the rejected Updates since the last accepted one
    afterRej,  \* that value, when the last accepted Update followed a rejection
    he,        \* the HistogramEngine the caller holds, NoEngine before/without
    entry,     \* the histogram entry whose GetValue is called on its own
    entryIndex,    \* the index the last HistogramEngine.Update sampled, -1 if none
    newValueBytes, \* the bytes the last GetValue returned
    panicked,  \* the process ended in a run-time panic
    pc,        \* where each thread is in its Update
    locLeft,   \* each thread's local left
    tmp,       \* the currValue each thread read for its += or -=
    emitted,   \* the value each thread's Update wrote to its slice
    overlapped,    \* a thread has stepped while the other was inside Update
    mr,        \* the MethodRepository
    regs,      \* the RegisterMethod calls so far and their errors, oldest first
    req,       \* the request of the last TakeMethod
    taken      \* what the last TakeMethod returned

\* no value: below every unsigned integer
NoValue == 0 - 1
NoParams == [none |-> TRUE]
NoRequest == [none |-> TRUE]
NoResult == [none |-> TRUE]

hvars == <<he, entry, entryIndex, newValueBytes, panicked>>
cvars == <<pc, locLeft, tmp, emitted, overlapped>>
rvars == <<mr, regs, req, taken>>
vars == <<params0, uie, err, b, b0, last, pre, n, rejVal, afterRej,
          he, entry, entryIndex, newValueBytes, panicked,
          pc, locLeft, tmp, emitted, overlapped, mr, regs, req, taken>>

\* ------------------------------------------------- inputs of the UIntEngine
\* sizes handed to the constructor: the four widths and one that is none
SizeInputs == {1, 2, 3, 4, 8}
OpInputs == {"inc", "dec", "rand", "bogus"}
OffsetInputs == {0}
\* domain bounds and initial values: the ends of each width and their neighbours
ValueInputs == {0, 1, MaxUint16, MaxUint64 - 1, MaxUint64}
InitInputs == {0, 1, MaxUint16, MaxUint64}
\* steps: none, one, two, the size of the domain of two bytes, the largest
StepInputs == {0, 1, 2, MaxUint16 + 1, MaxUint64}
\* draws of rand.Uint64()
DrawInputs == {0, 1, MaxUint16, MaxUint64 - 1, MaxUint64}
\* lengths and filling of the slices handed to Update
LenInputs == {0, 1, 2, 4, 8, 9}
FillInputs == {Radix - 1}

UIntEngineParams ==
    [size : SizeInputs, offset : OffsetInputs, op : OpInputs, step : StepInputs,
     minValue : ValueInputs, maxValue : ValueInputs, initValue : InitInputs]

\* nothing constructed, nothing called
Idle ==
    /\ params0 = NoParams
    /\ uie = NoEngine
    /\ err = nil
    /\ b = <<>>
    /\ b0 = <<>>
    /\ last = "none"
    /\ pre = NoValue
    /\ n = 0
    /\ rejVal = NoValue
    /\ afterRej = NoValue
    /\ he = NoEngine
    /\ entryIndex = -1
    /\ newValueBytes = <<>>
    /\ panicked = FALSE
    /\ pc = [t \in Threads |-> "idle"]
    /\ locLeft = [t \in Threads |-> 0]
    /\ tmp = [t \in Threads |-> 0]
    /\ emitted = [t \in Threads |-> NoValue]
    /\ overlapped = FALSE
    /\ mr = NewMethodRepository
    /\ regs = <<>>
    /\ req = NoRequest
    /\ taken = NoResult

NoEntry == [kind |-> "none"]

Init == Idle /\ entry = NoEntry

\* the caller constructs its engine from params
NewUIntEngineCall(params) ==
    /\ LET r == NewUIntEngine(params) IN
         /\ params0' = params
         /\ uie' = r.o
         /\ err' = r.err
    /\ last' = "New"
    /\ UNCHANGED <<b, b0, pre, n, rejVal, afterRej>>
    /\ UNCHANGED <<hvars, cvars, rvars>>

\* the caller hands the slice buf to Update; genValue is what rand.Uint64()
\* returns if the engine draws
UpdateCall(buf, genValue) ==
    /\ LET r == UIntEngine_Update(uie, buf, genValue) IN
         /\ uie' = r.o
         /\ b' = r.b
         /\ err' = r.err
         /\ n' = IF r.err = nil THEN n + 1 ELSE n
         /\ rejVal' = IF r.err = nil THEN NoValue ELSE uie.currValue
         /\ afterRej' = IF r.err = nil THEN rejVal ELSE NoValue
    /\ b0' = buf
    /\ pre' = uie.currValue
    /\ last' = "Update"
    /\ UNCHANGED params0
    /\ UNCHANGED <<hvars, cvars, rvars>>

Slice(len, fill) == [i \in 1..len |-> fill]

\* the draws that matter to the engine: only a rand engine draws
Draws(o) == IF o.par.op = "rand" THEN DrawInputs ELSE {0}

Construct ==
    /\ last = "none"
    /\ \E params \in UIntEngineParams : NewUIntEngineCall(params)

Update ==
    /\ uie # NoEngine
    /\ n < MaxUpdates
    /\ \E len \in LenInputs, fill \in FillInputs, genValue \in Draws(uie) :
          UpdateCall(Slice(len, fill), genValue)

Next == Construct \/ Update

Spec == Init /\ [][Next]_vars

\* ------------------------------------------ the cycle of an increment engine
\* increment engines whose stored step is 1 or another small step
CycleParams ==
    [size : {1, 2, 4, 8}, offset : OffsetInputs, op : {"inc"},
     step : {1, MaxUint16 + 2},
     minValue : {0, 1}, maxValue : {1, MaxUint16, MaxUint64},
     initValue : {0, 1}]

\* the number of values of [minValue, maxValue]
DomainSize(o) == o.par.maxValue - o.par.minValue + 1

ConstructCycle ==
    /\ last = "none"
    /\ \E params \in CycleParams : NewUIntEngineCall(params)

\* Updates are followed for one full cycle of the domain and one step more
UpdateCycle ==
    /\ uie # NoEngine
    /\ n <= DomainSize(uie)
    /\ \E len \in {1, 8} : UpdateCall(Slice(len, Radix - 1), 0)

NextCycle == ConstructCycle \/ UpdateCycle

SpecCycle == Init /\ [][NextCycle]_vars

\* ------------------------------------------------ one entry called on its own
\* every fixed value and every range of uint32, and some lists
EntryInputs ==
    {[kind |-> "UInt32", v |-> v, prob |-> 1] : v \in 0..MaxUint32}
    \cup {[kind |-> "UInt32Range", min |-> mn, max |-> mx, prob |-> 1] :
              mn \in 0..MaxUint32, mx \in 0..MaxUint32}
    \cup {[kind |-> "UInt32List", list |-> l, prob |-> 1] :
              l \in UNION {[1..k -> {0, 1, MaxUint32}] : k \in 0..MaxEntries}}

InitEntry == Idle /\ entry \in EntryInputs

\* the caller calls entry.GetValue() once
GetValue ==
    /\ last = "none"
    /\ \E r \in EntryDraws(entry, 0..MaxUint32) :
         LET g == HistogramEntry_GetValue(entry, r) IN
           /\ newValueBytes' = g.b
           /\ err' = g.err
           /\ panicked' = g.panic
    /\ last' = "GetValue"
    /\ UNCHANGED <<params0, uie, b, b0, pre, n, rejVal, afterRej, he, entry, entryIndex>>
    /\ UNCHANGED <<cvars, rvars>>

NextEntry == GetValue

SpecEntry == InitEntry /\ [][NextEntry]_vars

\* --------------------------------------------- inputs of the HistogramEngine
HistEntryInputs ==
    {[kind |-> "UInt32", v |-> v, prob |-> p] :
         v \in {1, MaxUint32 - 1}, p \in {0, 1}}
    \cup {[kind |-> "UInt32Range", min |-> mm[1], max |-> mm[2], prob |-> p] :
              mm \in {<<1, 2>>, <<2, 1>>, <<0, MaxUint32>>}, p \in {0, 2}}
    \cup {[kind |-> "UInt32List", list |-> l, prob |-> p] :
              l \in {<<>>, <<0, MaxUint32>>}, p \in {0, 1}}

\* field sizes: shorter than, equal to and longer than the four bytes of a uint32
HistSizeInputs == {2, 4, 5}
HistLenInputs == {1, 4, 6}
HistDrawInputs == {0, 1, MaxUint32}

HistogramEngineParams ==
    [size : HistSizeInputs, offset : OffsetInputs,
     entries : UNION {[1..k -> HistEntryInputs] : k \in 0..MaxEntries}]

\* the caller constructs its histogram engine from params
NewHistogramEngineCall(params) ==
    /\ LET r == NewHistogramEngine(params) IN
         /\ params0' = params
         /\ he' = r.o
         /\ err' = r.err
    /\ last' = "New"
    /\ UNCHANGED <<uie, b, b0, pre, n, rejVal, afterRej,
                   entry, entryIndex, newValueBytes, panicked>>
    /\ UNCHANGED <<cvars, rvars>>

\* the caller hands the slice buf to Update; index is what Generate returns and
\* r what the sampled entry draws, if Update gets that far
HistogramUpdateCall(buf, index, r) ==
    /\ LET u == HistogramEngine_Update(he, buf, index, r) IN
         /\ b' = u.b
         /\ err' = u.err
         /\ panicked' = u.panic
         /\ entryIndex' = u.entryIndex
         /\ newValueBytes' = u.newValueBytes
    /\ b0' = buf
    /\ last' = "Update"
    /\ UNCHANGED <<params0, uie, pre, n, rejVal, afterRej, he, entry>>
    /\ UNCHANGED <<cvars, rvars>>

ConstructHistogram ==
    /\ last = "none"
    /\ \E params \in HistogramEngineParams : NewHistogramEngineCall(params)

UpdateHistogram ==
    /\ he # NoEngine
    /\ ~panicked
    /\ \E len \in HistLenInputs, index \in NonUniformRandGen_Generate(he.generator) :
         \E r \in EntryDraws(he.par.entries[index + 1], HistDrawInputs) :
            HistogramUpdateCall(Slice(len, Radix - 1), index, r)

NextHist == ConstructHistogram \/ UpdateHistogram

SpecHist == Init /\ [][NextHist]_vars

\* ------------------------------------- both engines behind FieldEngineIF
\* engines of every width and operation at two offsets
FrameParams ==
    [size : {1, 2, 4, 8}, offset : {0, 3}, op : {"inc", "dec", "rand"},
     step : {1, MaxUint64},
     minValue : {0, 1}, maxValue : {1, MaxUint16, MaxUint64},
     initValue : {0}]

FrameHistogramParams ==
    [size : HistSizeInputs, offset : {0, 3}, entries : [1..1 -> HistEntryInputs]]

ConstructFrame ==
    /\ last = "none"
    /\ \E params \in FrameParams : NewUIntEngineCall(params)

ConstructHistogramFrame ==
    /\ last = "none"
    /\ \E params \in FrameHistogramParams : NewHistogramEngineCall(params)

NextFrame == ConstructFrame \/ Update \/ ConstructHistogramFrame \/ UpdateHistogram

SpecFrame == Init /\ [][NextFrame]_vars

\* ------------------------------------------- one rune entry called on its own
\* the runes at the edges of the encoding lengths, of the surrogate halves and
\* of int32
RuneInputs ==
    {MinInt32, 0 - 1, 0, 65, 127, 128, 2047, 2048, 55295, 55296, 57343, 57344,
     65535, 65536, 1114111, 1114112, MaxInt32}

RuneEntryInputs ==
    {[kind |-> "Rune", r |-> r, prob |-> 1] : r \in RuneInputs}
    \cup {[kind |-> "RuneRange", min |-> mn, max |-> mx, prob |-> 1] :
              mn \in RuneInputs, mx \in RuneInputs}
    \cup {[kind |-> "RuneList", list |-> l, prob |-> 1] :
              l \in UNION {[1..k -> {65, 8364, 55296}] : k \in 0..MaxEntries}}

InitRune == Idle /\ entry \in RuneEntryInputs

SpecRune == InitRune /\ [][NextEntry]_vars

\* ------------------------------------- two threads calling Update on one engine
\* increment and decrement engines of eight bytes, on a small and on the
\* full-width domain
ConcParams ==
    [size : {8}, offset : OffsetInputs, op : {"inc", "dec"}, step : {1, 2, 3},
     minValue : {0, 1}, maxValue : {3, MaxUint64}, initValue : {0, 1, 3}]

ConstructConc ==
    /\ last = "none"
    /\ \E params \in ConcParams : NewUIntEngineCall(params)

InUpdate(t) == pc[t] \notin {"idle", "done"}

\* thread t takes its next step, leaving the engine as o and going to l
ThreadStep(t, o, l) ==
    /\ uie' = o
    /\ pc' = [pc EXCEPT ![t] = l]
    /\ overlapped' = (overlapped \/ \E u \in Threads \ {t} : InUpdate(u))
    /\ UNCHANGED <<params0, err, b, b0, last, pre, n, rejVal, afterRej>>
    /\ UNCHANGED <<hvars, rvars>>

\* Update reads currValue and writes it to the thread's slice
Emit ==
    /\ uie # NoEngine
    /\ \E t \in Threads :
         /\ pc[t] = "idle"
         /\ emitted' = [emitted EXCEPT ![t] = Update_emit(uie)]
         /\ ThreadStep(t, uie, "left")
         /\ UNCHANGED <<locLeft, tmp>>

\* IncValue, DecValue read currValue into left and compare it with step
Left ==
    \E t \in Threads :
         /\ pc[t] = "left"
         /\ locLeft' = [locLeft EXCEPT ![t] = OpValue_left(uie)]
         /\ ThreadStep(t, uie,
                IF uie.par.step <= OpValue_left(uie) THEN "read" ELSE "restart")
         /\ UNCHANGED <<tmp, emitted>>

\* the read of currValue += step, currValue -= step
Read ==
    \E t \in Threads :
         /\ pc[t] = "read"
         /\ tmp' = [tmp EXCEPT ![t] = uie.currValue]
         /\ ThreadStep(t, uie, "write")
         /\ UNCHANGED <<locLeft, emitted>>

\* the write of currValue += step, currValue -= step
Write ==
    \E t \in Threads :
         /\ pc[t] = "write"
         /\ ThreadStep(t, [uie EXCEPT !.currValue = OpValue_step(uie, tmp[t])],
                       "done")
         /\ UNCHANGED <<locLeft, tmp, emitted>>

\* the write of the restart
Restart ==
    \E t \in Threads :
         /\ pc[t] = "restart"
         /\ ThreadStep(t, [uie EXCEPT !.currValue = OpValue_restart(uie, locLeft[t])],
                       "done")
         /\ UNCHANGED <<locLeft, tmp, emitted>>

NextConc == ConstructConc \/ Emit \/ Left \/ Read \/ Write \/ Restart

SpecConc == Init /\ [][NextConc]_vars

\* ------------------------------------------- the callers of MethodRepository
MethodInputs == {"", "a", "b"}
\* the handler and the noApi flag of a registration
HandlerInputs == {<<nil, FALSE>>, <<"h1", FALSE>>, <<"h1", TRUE>>, <<"h2", TRUE>>}
VersionInputs == {Version, "1.0"}
RequestInputs == [Method : MethodInputs, Version : VersionInputs]

RegisterMethodCall(method, h, noApi) ==
    /\ LET r == RegisterMethod(mr, method, h, noApi) IN
         /\ mr' = r.mr
         /\ err' = r.err
         /\ regs' = Append(regs, [method |-> method, h |-> h, noApi |-> noApi,
                                  err |-> r.err])
    /\ last' = "RegisterMethod"
    /\ UNCHANGED <<req, taken>>
    /\ UNCHANGED <<params0, uie, b, b0, pre, n, rejVal, afterRej>>
    /\ UNCHANGED <<hvars, cvars>>

TakeMethodCall(r) ==
    /\ taken' = TakeMethod(mr, r)
    /\ req' = r
    /\ last' = "TakeMethod"
    /\ UNCHANGED <<mr, regs, err>>
    /\ UNCHANGED <<params0, uie, b, b0, pre, n, rejVal, afterRej>>
    /\ UNCHANGED <<hvars, cvars>>

Register ==
    /\ Len(regs) < MaxRegs
    /\ \E method \in MethodInputs, h \in HandlerInputs :
         RegisterMethodCall(method, h[1], h[2])

Take == \E r \in RequestInputs : TakeMethodCall(r)

NextRepo == Register \/ Take

SpecRepo == Init /\ [][NextRepo]_vars

\* ------------------------------------------------------------------ claims
\* the bytes of the field as the last Update left them, as a number
Emitted == BigEndianUint(SubSeq(b, 1, uie.par.size))

\* the engine as construction left it, advanced k times (inc and dec draw nothing)
RECURSIVE Advanced(_, _)
Advanced(o, k) == IF k = 0 THEN o ELSE Advanced(PerformOp(o, 0).o, k - 1)

\* C1: the current value of every constructed engine lies in
\* [minValue, maxValue], after construction and after every Update, accepted
\* or rejected, whatever the step
C1_CurrValueInDomain ==
    uie # NoEngine =>
        /\ uie.par.minValue <= uie.currValue
        /\ uie.currValue <= uie.par.maxValue

\* an engine given a step larger than its domain, after accepted Updates and
\* a rejected one
C1_Witness ==
    /\ uie # NoEngine
    /\ params0.step > uie.domainLen
    /\ uie.par.op = "inc"
    /\ uie.par.minValue = 1
    /\ n >= 3
    /\ err # nil

\* C2: an accepted Update emits the value held before the operation and only
\* then advances: the field's bytes spell, in big-endian order and without
\* truncation, the current value at entry; the first accepted Update emits
\* max(minValue, initValue), the k-th the value after k-1 operations; size 2,
\* inc, step 1, min 0, max 3, init 0 emits 0, 1, 2, 3, 0
C2_EmitsThenAdvances ==
    (last = "Update" /\ err = nil) =>
        /\ Emitted = pre
        /\ n = 1 => Emitted = maxUInt64(params0.minValue, params0.initValue)
        /\ uie.par.op \in {"inc", "dec"} =>
               Emitted = Advanced(NewUIntEngine(params0).o, n - 1).currValue
        /\ ( /\ params0.size = 2 /\ params0.op = "inc" /\ params0.step = 1
             /\ params0.minValue = 0 /\ params0.maxValue = 3
             /\ params0.initValue = 0 ) => Emitted = (n - 1) % 4

\* the fifth Update of the engine of the example has emitted 0 again
C2_Witness ==
    /\ last = "Update" /\ err = nil
    /\ params0.size = 2 /\ params0.op = "inc" /\ params0.step = 1
    /\ params0.minValue = 0 /\ params0.maxValue = 3 /\ params0.initValue = 0
    /\ n = 5
    /\ Emitted = 0

\* C3: an Update handed a slice shorter than size() returns an error, writes
\* no byte and leaves currValue as it was, and the next accepted Update emits
\* the value the rejected ones would have emitted
C3_RejectedUpdateChangesNothing ==
    last = "Update" =>
        /\ Len(b0) < uie.par.size => err # nil
        /\ err # nil => (b = b0 /\ uie.currValue = pre)
        /\ (err = nil /\ afterRej # NoValue) => Emitted = afterRej

\* an accepted Update that follows a rejected one, in the middle of a run
C3_Witness ==
    /\ last = "Update" /\ err = nil
    /\ afterRej # NoValue
    /\ n >= 3
    /\ uie.par.op = "dec" /\ uie.par.step = 1
    /\ uie.par.maxValue > uie.par.minValue

\* the configurations the claim lists as invalid
InvalidConfig(p) ==
    \/ p.minValue > p.maxValue
    \/ p.size \notin {1, 2, 4, 8}
    \/ p.maxValue > Radix ^ p.size - 1
    \/ p.op \notin {"inc", "dec", "rand"}
    \/ (p.initValue # 0 /\ (p.initValue < p.minValue \/ p.initValue > p.maxValue))

\* C4: NewUIntEngine returns an error and no engine exactly for the invalid
\* configurations, also when a later check passes after an earlier one failed
C4_RejectsExactlyInvalid ==
    last = "New" =>
        /\ (uie = NoEngine) <=> InvalidConfig(params0)
        /\ (err # nil) <=> (uie = NoEngine)

\* min > max with a valid size, a representable max and a valid operation
C4_Witness ==
    /\ last = "New"
    /\ uie = NoEngine /\ err # nil
    /\ params0.minValue > params0.maxValue
    /\ params0.size = 8
    /\ params0.op = "rand"
    /\ params0.initValue = 0

\* C5 as claimed: an inc engine of step 1 started at minValue is at minValue
\* again after exactly domainLen advances, having been at every value once
C5_CycleOfDomainLen ==
    ( /\ uie # NoEngine /\ uie.par.op = "inc" /\ uie.par.step = 1
      /\ maxUInt64(params0.minValue, params0.initValue) = uie.par.minValue ) =>
        uie.currValue = uie.par.minValue + (n % uie.domainLen)

\* C5 as amended: the cycle has maxValue - minValue + 1 advances, the number of
\* values of the domain, which for min = 0, max = MaxUint64 is one more than
\* the stored domainLen
C5_CycleOfDomainSize ==
    (uie # NoEngine /\ uie.par.op = "inc" /\ uie.par.step = 1) =>
        LET start == maxUInt64(params0.minValue, params0.initValue) IN
        uie.currValue =
            uie.par.minValue + ((start - uie.par.minValue + n) % DomainSize(uie))

\* the full-width engine back at minValue after a whole cycle
C5_Witness ==
    /\ uie # NoEngine /\ uie.par.op = "inc" /\ uie.par.step = 1
    /\ uie.par.minValue = 0 /\ uie.par.maxValue = MaxUint64
    /\ n = MaxUint64 + 1
    /\ uie.currValue = 0

\* C6: the values one RandValue can leave in currValue, over all draws, are
\* exactly those of [minValue, maxValue]
C6_RandCoversDomain ==
    (uie # NoEngine /\ uie.par.op = "rand") =>
        {RandValue(uie, g).currValue : g \in 0..MaxUint64}
            = uie.par.minValue .. uie.par.maxValue

\* C7: GetValue of a uint32 range entry with min <= max returns, without
\* aborting, 4 bytes that spell a value of [min, max]; with max < min it
\* returns a failure and no bytes
C7_RangeValueInRange ==
    (last = "GetValue" /\ entry.kind = "UInt32Range") =>
        IF entry.min <= entry.max
        THEN /\ ~panicked
             /\ err = nil
             /\ Len(newValueBytes) = 4
             /\ BigEndianUint(newValueBytes) \in entry.min .. entry.max
        ELSE /\ ~panicked
             /\ err # nil
             /\ newValueBytes = <<>>

\* an entry that can never produce a value
BadEntry(e) ==
    \/ (e.kind = "UInt32Range" /\ e.max < e.min)
    \/ (e.kind = "UInt32List" /\ Len(e.list) = 0)

\* C8: NewHistogramEngine returns no engine for an empty entry sequence,
\* all-zero weights, a range entry with max < min or a list entry with an
\* empty list, so that no Update of a constructed engine fails on such an entry
C8_BadEntriesRejectedAtConstruction ==
    /\ he # NoEngine =>
         /\ Len(he.par.entries) > 0
         /\ \E i \in 1..Len(he.par.entries) : he.par.entries[i].prob > 0
         /\ \A i \in 1..Len(he.par.entries) : ~BadEntry(he.par.entries[i])
    /\ (he # NoEngine /\ last = "Update") =>
         err \notin {"MaxSmallerThanMin", "EmptyList"}

\* C9: after an accepted Update the sampled index is an index of entries, the
\* produced value has at least size() bytes and the first size() bytes of the
\* slice are the first size() bytes of the produced value; a produced value
\* of fewer bytes makes the call fail
C9_CopiesSizeBytesOfTheValue ==
    (he # NoEngine /\ last = "Update" /\ ~panicked) =>
        /\ err = nil =>
             /\ entryIndex \in 0..(Len(he.par.entries) - 1)
             /\ Len(newValueBytes) >= he.par.size
             /\ \A i \in 1..he.par.size : b[i] = newValueBytes[i]
             /\ \E r \in 0..MaxUint32 :
                  LET g == HistogramEntry_GetValue(he.par.entries[entryIndex + 1],
                               IF he.par.entries[entryIndex + 1].kind = "UInt32List"
                               THEN r % Len(he.par.entries[entryIndex + 1].list)
                               ELSE r)
                  IN ~g.panic /\ g.err = nil /\ g.b = newValueBytes
        /\ Len(newValueBytes) < he.par.size => err # nil

\* an accepted Update that dropped bytes of the value, and the other case is
\* C10_Witness
C9_Witness ==
    /\ he # NoEngine /\ last = "Update" /\ err = nil
    /\ he.par.size = 2
    /\ Len(newValueBytes) = 4
    /\ entryIndex = 1
    /\ newValueBytes[3] # b0[1]

\* C10: an Update that returns an error has changed no byte of the slice
C10_NoPartialOutput ==
    (he # NoEngine /\ last = "Update" /\ (err # nil \/ panicked)) => b = b0

\* a value shorter than the field, with a slice long enough for the field
C10_Witness ==
    /\ he # NoEngine /\ last = "Update"
    /\ err = "ShortValue"
    /\ Len(b0) >= he.par.size
    /\ Len(newValueBytes) = 4
    /\ \E i \in 1..4 : newValueBytes[i] # b0[i]

\* C12: Update changes only the first size() bytes of the slice and, for a
\* UIntEngine, currValue: the bytes from size() on keep their content and the
\* parameters, domainLen, GetOffset() and GetSize() stay as construction left
\* them
C12_UpdateConfinedToField ==
    /\ uie # NoEngine =>
         LET c == NewUIntEngine(params0).o IN
         /\ uie.par = c.par
         /\ uie.domainLen = c.domainLen
         /\ UIntEngine_GetOffset(uie) = params0.offset
         /\ UIntEngine_GetSize(uie) = params0.size
    /\ he # NoEngine =>
         /\ he.par = params0
         /\ HistogramEngine_GetOffset(he) = params0.offset
         /\ HistogramEngine_GetSize(he) = params0.size
    /\ last = "Update" =>
         /\ Len(b) = Len(b0)
         /\ \A i \in 1..Len(b) : i > params0.size => b[i] = b0[i]

\* an accepted Update of a two-byte engine at offset 3 into a longer slice
C12_Witness ==
    /\ uie # NoEngine /\ last = "Update" /\ err = nil
    /\ uie.par.size = 2 /\ uie.par.offset = 3
    /\ Len(b) = 9
    /\ n >= 2
    /\ Emitted = 0

\* a mod d with a remainder in 0..d-1
Mod(a, d) == ((a % d) + d) % d

\* C13: IncValue leaves minValue + ((currValue - minValue + step) mod
\* (maxValue - minValue + 1)) and none of maxValue - currValue, currValue +
\* step, step - left - 1, minValue + (step - left - 1) leaves 0..MaxUint64
C13_IncValueIsModularAndExact ==
    uie # NoEngine =>
        LET o == uie
            left == o.par.maxValue - o.currValue
        IN /\ IncValue(o).currValue =
                  o.par.minValue
                  + Mod(o.currValue - o.par.minValue + o.par.step, DomainSize(o))
           /\ left >= 0
           /\ IF o.par.step <= left
              THEN o.currValue + o.par.step <= MaxUint64
              ELSE /\ o.par.step - left - 1 >= 0
                   /\ o.par.minValue + (o.par.step - left - 1) <= MaxUint64

\* the full-width engine of the largest step has wrapped around
C13_Witness ==
    /\ uie # NoEngine /\ last = "Update" /\ err = nil
    /\ uie.par.op = "inc"
    /\ uie.par.minValue = 0 /\ uie.par.maxValue = MaxUint64
    /\ uie.par.step = MaxUint64
    /\ pre > 0
    /\ uie.currValue = pre - 1

\* C14: DecValue leaves minValue + ((currValue - minValue - step) mod
\* (maxValue - minValue + 1)), the remainder taken non-negative, none of
\* currValue - minValue, currValue - step, step - left - 1, maxValue - (step -
\* left - 1) leaves 0..MaxUint64, and DecValue undoes IncValue
C14_DecValueIsModularAndUndoesInc ==
    uie # NoEngine =>
        LET o == uie
            left == o.currValue - o.par.minValue
        IN /\ DecValue(o).currValue =
                  o.par.minValue
                  + Mod(o.currValue - o.par.minValue - o.par.step, DomainSize(o))
           /\ left >= 0
           /\ IF o.par.step <= left
              THEN o.currValue - o.par.step >= 0
              ELSE /\ o.par.step - left - 1 >= 0
                   /\ o.par.maxValue - (o.par.step - left - 1) >= 0
           /\ DecValue(IncValue(o)) = o

\* a decrement by 1 at minValue has left maxValue
C14_Witness ==
    /\ uie # NoEngine /\ last = "Update" /\ err = nil
    /\ uie.par.op = "dec" /\ uie.par.step = 1
    /\ uie.par.maxValue > uie.par.minValue + 1
    /\ pre = uie.par.minValue
    /\ uie.currValue = uie.par.maxValue

\* the parameters with the step reduced modulo the number of values of the domain
ReducedParams(p) == [p EXCEPT !.step = p.step % (p.maxValue - p.minValue + 1)]

\* C15: the stored step is at most domainLen, and an inc or dec engine given
\* step s holds and emits, after any number of Updates, what the engine given
\* s mod (maxValue - minValue + 1) holds and emits
C15_StepReductionPreservesValues ==
    uie # NoEngine =>
        /\ uie.par.step <= uie.domainLen
        /\ uie.par.op \in {"inc", "dec"} =>
             LET reduced == NewUIntEngine(ReducedParams(params0)).o IN
             /\ uie.currValue = Advanced(reduced, n).currValue
             /\ (last = "Update" /\ err = nil) =>
                    Emitted = Advanced(reduced, n - 1).currValue

\* a step of twice the domain size has left the value where it started
C15_Witness ==
    /\ uie # NoEngine /\ last = "Update" /\ err = nil
    /\ uie.par.op = "dec"
    /\ params0.step = MaxUint16 + 1
    /\ DomainSize(uie) = 2
    /\ n >= 2
    /\ uie.currValue = maxUInt64(params0.minValue, params0.initValue)

\* C16: Update of a constructed engine never returns the errors of an
\* unrecognized operation or a wrong size: it fails only on the length of the
\* slice, and then it has written nothing
C16_DefensiveErrorsUnreachable ==
    (uie # NoEngine /\ last = "Update") =>
        /\ err \in {nil, "ShortSlice"}
        /\ err # nil => (Len(b0) < uie.par.size /\ b = b0)

\* a rejected Update after accepted ones
C16_Witness ==
    /\ uie # NoEngine /\ last = "Update"
    /\ err = "ShortSlice"
    /\ uie.par.op = "rand"
    /\ uie.par.size = 8 /\ Len(b0) = 4
    /\ n >= 1

\* C17 as claimed: Update samples first and checks the length of the slice
\* last, so that a call with too short a slice has consumed a sample and
\* returns the failure of the sampled entry if that entry fails
C17_SliceCheckedLast ==
    (he # NoEngine /\ last = "Update" /\ ~panicked /\ Len(b0) < he.par.size) =>
        /\ entryIndex \in 0..(Len(he.par.entries) - 1)
        /\ BadEntry(he.par.entries[entryIndex + 1]) =>
               err \in {"MaxSmallerThanMin", "EmptyList"}

\* C17 as amended: Update checks the length of the slice first: with too
\* short a slice it returns that error without sampling or calling GetValue,
\* whatever the entries; otherwise it samples, calls GetValue of the sampled
\* entry and returns its failure, then checks the produced length, then copies
C17_SliceCheckedFirst ==
    (he # NoEngine /\ last = "Update" /\ ~panicked) =>
        IF Len(b0) < he.par.size
        THEN /\ err = "ShortSlice"
             /\ entryIndex = -1
             /\ newValueBytes = <<>>
        ELSE /\ entryIndex \in 0..(Len(he.par.entries) - 1)
             /\ LET e == he.par.entries[entryIndex + 1] IN
                IF BadEntry(e)
                THEN err = IF e.kind = "UInt32Range" THEN "MaxSmallerThanMin"
                           ELSE "EmptyList"
                ELSE /\ Len(newValueBytes) = 4
                     /\ err = IF he.par.size > 4 THEN "ShortValue" ELSE nil

\* too short a slice handed to an engine whose every entry of positive weight
\* fails
C17_Witness ==
    /\ he # NoEngine /\ last = "Update"
    /\ Len(b0) < he.par.size
    /\ err = "ShortSlice"
    /\ Len(he.par.entries) = 2
    /\ \A i \in 1..2 : he.par.entries[i].prob > 0 /\ BadEntry(he.par.entries[i])

\* C11: GetValue of a rune entry never ends the process: the fixed rune
\* returns bytes and no error, the range and the list return bytes or the
\* error of max < min / of the empty list
C11_NoRuneEntryAborts ==
    (last = "GetValue" /\ entry.kind \in {"Rune", "RuneRange", "RuneList"}) =>
        /\ ~panicked
        /\ entry.kind = "Rune" => err = nil
        /\ err # nil => \/ entry.kind = "RuneRange" /\ entry.max < entry.min
                        \/ entry.kind = "RuneList" /\ Len(entry.list) = 0
        /\ err = nil => Len(newValueBytes) \in 1..4

\* both threads have returned from Update
BothDone == \A t \in Threads : pc[t] = "done"

\* currValue after k advances of the engine constructed from params0
AfterAdvances(k) ==
    LET o == NewUIntEngine(params0).o
        d == IF o.par.op = "inc" THEN k * o.par.step ELSE 0 - (k * o.par.step)
    IN o.par.minValue + Mod(o.currValue - o.par.minValue + d, DomainSize(o))

\* C18: when the two Updates of an inc or dec engine are serialized, currValue
\* ends in [minValue, maxValue] two advances after the initial value, and the
\* two calls wrote the initial value and the value one advance after it
C18_SerializedUpdatesAreExact ==
    (uie # NoEngine /\ BothDone /\ ~overlapped) =>
        /\ uie.currValue >= uie.par.minValue
        /\ uie.currValue <= uie.par.maxValue
        /\ uie.currValue = AfterAdvances(2)
        /\ \E t \in Threads :
             /\ emitted[t] = AfterAdvances(0)
             /\ \A u \in Threads \ {t} : emitted[u] = AfterAdvances(1)

\* two overlapped Updates have written the same value although an advance
\* changes it, and have left currValue above maxValue
C18_Witness ==
    /\ uie # NoEngine /\ BothDone /\ overlapped
    /\ emitted[1] = emitted[2]
    /\ AfterAdvances(1) # AfterAdvances(0)
    /\ uie.currValue > uie.par.maxValue

\* two overlapped Updates have left currValue one advance after the initial
\* value: an advance is lost
C18_LostAdvance ==
    /\ uie # NoEngine /\ BothDone /\ overlapped
    /\ uie.currValue = AfterAdvances(1)
    /\ AfterAdvances(2) # AfterAdvances(1)

\* two serialized Updates have returned
C18_Serialized ==
    /\ uie # NoEngine /\ BothDone /\ ~overlapped
    /\ AfterAdvances(2) < AfterAdvances(0)

\* the RegisterMethod calls of the name method that returned no error
Registered(method) ==
    {i \in 1..Len(regs) : regs[i].method = method /\ regs[i].err = nil}

\* the last of them
LastRegistered(method) ==
    regs[CHOOSE i \in Registered(method) : \A j \in Registered(method) : j <= i]

\* C19: the registry holds, for each name, the handler and the noApi flag of
\* the last RegisterMethod of that name that returned no error and nothing
\* for the other names, so that a rejected RegisterMethod changes nothing;
\* RegisterMethod is rejected exactly for the empty name or the nil handler;
\* TakeMethod returns ErrInvalidParams for the empty name or another version
\* whatever is registered, ErrMethodNotFound for a name never registered,
\* and else the handler and the flag of the last registration
C19_LastRegistrationWins ==
    /\ \A i \in 1..Len(regs) :
         regs[i].err # nil <=> (regs[i].method = "" \/ regs[i].h = nil)
    /\ DOMAIN Methods(mr) = {m \in MethodInputs : Registered(m) # {}}
    /\ \A m \in DOMAIN Methods(mr) :
         Methods(mr)[m] = Metadata(LastRegistered(m).h, LastRegistered(m).noApi)
    /\ last = "TakeMethod" =>
         IF req.Method = "" \/ req.Version # Version
         THEN taken = [h |-> nil, err |-> "ErrInvalidParams", noApi |-> FALSE]
         ELSE IF Registered(req.Method) = {}
         THEN taken = [h |-> nil, err |-> "ErrMethodNotFound", noApi |-> FALSE]
         ELSE taken = [h |-> LastRegistered(req.Method).h, err |-> nil,
                       noApi |-> LastRegistered(req.Method).noApi]

\* a name registered twice with two handlers and two flags, then once more
\* with the nil handler, is taken
C19_Witness ==
    /\ last = "TakeMethod"
    /\ Len(regs) = 3
    /\ \A i \in 1..3 : regs[i].method = req.Method
    /\ regs[1].err = nil /\ regs[2].err = nil /\ regs[3].err # nil
    /\ regs[1].h # regs[2].h
    /\ regs[1].noApi # regs[2].noApi
    /\ taken.err = nil
    /\ taken.h = regs[2].h

====
